---- MODULE Spec2Model ----
(***************************************************************************)
(* CodegenService (intent-framework): six file generators that render a    *)
(* template, write a new source file and, for four of the kinds, splice    *)
(* the new symbol into a registry file (config/index.ts or app/module.ts). *)
(*                                                                         *)
(* Every generator is an async method.  The code between two awaits runs   *)
(* atomically on the event loop, so one action of the model is one such    *)
(* stretch of code; the file write started by save() lands at a later      *)
(* time than the call that started it.                                     *)
(***************************************************************************)
EXTENDS Naturals, Sequences, FiniteSets, TLC

\* Number of generator invocations issued against one project tree.
MaxInvocations == 2

Procs == 1..MaxInvocations

------------------------------------------------------------------------------
\* Paths, relative to the project root.

ConfigIndex == "config/index.ts"
AppModuleFile == "app/module.ts"

\* The generation requests a caller issues (options of each generator).
Requests ==
  { [kind |-> "config", filePath |-> "config/cache.ts",
     fileNameWithoutEx |-> "cache", symbol |-> "cache", repoToken |-> ""],
    [kind |-> "controller", filePath |-> "controllers/widget.ts",
     fileNameWithoutEx |-> "widget", symbol |-> "WidgetController", repoToken |-> ""],
    [kind |-> "controller", filePath |-> "controllers/gadget.ts",
     fileNameWithoutEx |-> "gadget", symbol |-> "GadgetController", repoToken |-> ""],
    [kind |-> "service", filePath |-> "services/widget.ts",
     fileNameWithoutEx |-> "widget", symbol |-> "WidgetService", repoToken |-> ""],
    [kind |-> "exception", filePath |-> "exceptions/widget.ts",
     fileNameWithoutEx |-> "", symbol |-> "WidgetException", repoToken |-> ""],
    [kind |-> "repo", filePath |-> "repositories/widget.ts",
     fileNameWithoutEx |-> "widget", symbol |-> "WidgetRepository",
     repoToken |-> "WIDGET_REPO"],
    [kind |-> "model", filePath |-> "models/widget.ts",
     fileNameWithoutEx |-> "", symbol |-> "WidgetModel", repoToken |-> ""] }

NoRequest ==
  [kind |-> "none", filePath |-> "", fileNameWithoutEx |-> "", symbol |-> "",
   repoToken |-> ""]

Paths == {r.filePath : r \in Requests} \cup {ConfigIndex, AppModuleFile}

ModuleKinds == {"controller", "service", "repo"}
RegisteredKinds == ModuleKinds \cup {"config"}
PlainKinds == {"exception", "model"}

------------------------------------------------------------------------------
\* File contents.

Absent == [type |-> "absent"]
NoTree == [type |-> "none"]

\* An array-valued node of a registry tree: absent, present with another
\* shape than an array literal, or an array literal with its elements.
NoNode == [kind |-> "absent", elems |-> <<>>]
OtherNode == [kind |-> "other", elems |-> <<>>]
ArrayNode(es) == [kind |-> "array", elems |-> es]

Identifier(name) == <<name>>

ModuleTree(imps, cls, dec, arg, ctl, prov) ==
  [type |-> "module", imports |-> imps, hasClass |-> cls, hasDecorator |-> dec,
   arg |-> arg, controllers |-> ctl, providers |-> prov]

IndexTree(imps, exp) ==
  [type |-> "index", imports |-> imps, export |-> exp]

------------------------------------------------------------------------------
\* What differs between the six generators.

\* Template name handed to renderAsync.
TemplateOf(kind) ==
  CASE kind = "config" -> "config"
    [] kind = "controller" -> "controller"
    [] kind = "service" -> "service"
    [] kind = "exception" -> "exception"
    [] kind = "repo" -> "repositoryDB"
    [] kind = "model" -> "model"

Templates == {TemplateOf(r.kind) : r \in Requests}

\* Variant: createException carries the registration code of createService.
RegistryOf_ExceptionRegistered(kind) ==
  CASE kind = "config" -> ConfigIndex
    [] kind \in ModuleKinds \cup {"exception"} -> AppModuleFile
    [] OTHER -> ""

\* Registry file the generator opens with addSourceFileAtPath ("" when the
\* generator opens none).
RegistryOf(kind) ==
  CASE kind = "config" -> ConfigIndex
    [] kind \in ModuleKinds -> AppModuleFile
    [] OTHER -> ""

\* Property of the @Module argument looked up with getProperty.
ArrayOf(kind) ==
  IF kind = "controller" THEN "controllers" ELSE "providers"

\* Text handed to addElement.
ElementOf(r) ==
  CASE r.kind = "config" -> Identifier(r.fileNameWithoutEx)
    [] r.kind = "repo" -> <<"provide", r.repoToken, "useClass", r.symbol>>
    [] OTHER -> Identifier(r.symbol)

\* Structure handed to addImportDeclaration: default or named import, the
\* imported name, and the module specifier (prefix, fileNameWithoutEx).
ImportOf(r) ==
  CASE r.kind = "config" -> <<"default", r.fileNameWithoutEx, "./", r.fileNameWithoutEx>>
    [] r.kind = "controller" -> <<"named", r.symbol, "./controllers/", r.fileNameWithoutEx>>
    [] r.kind = "service" -> <<"named", r.symbol, "./services/", r.fileNameWithoutEx>>
    [] OTHER -> <<"named", r.symbol, "./repositories/", r.fileNameWithoutEx>>

------------------------------------------------------------------------------
\* The collaborators, as far as the generators use them.

\* fs.existsSync(join(path, filePath))
existsSync(d, filePath) == d[filePath] # Absent

\* Variant: the guard's result is dropped (the check is not awaited).
checkIfFileAlreadyExists_Ignored(d, filePath) == FALSE

\* TRUE when checkIfFileAlreadyExists throws `${filePath} already exists`.
checkIfFileAlreadyExists(d, filePath) == existsSync(d, filePath)

\* templateEngine.renderAsync(template, input): the text is a function of
\* the template name and the input bag; the promise rejects when the views
\* directory holds no such template.
renderAsync(views, template, input) ==
  IF template \in views
    THEN [ok |-> TRUE, text |-> [type |-> "source", template |-> template, input |-> input]]
    ELSE [ok |-> FALSE, text |-> Absent]

\* TRUE when project.createSourceFile(path, text, {overwrite: false}) throws:
\* every generator makes a new Project, so only the file system can hold the
\* file already.
createSourceFileThrows(d, filePath) == existsSync(d, filePath)

\* Variant: save() is never called, the file stays in memory.
save_Skipped(d, filePath, text) == d

\* sourceFile.save(): the file's text replaces whatever is at its path.
save(d, filePath, text) == [d EXCEPT ![filePath] = text]

\* Variant: insertElement(0, text) in place of addElement(text).
addElement_AtFront(node, e) == ArrayNode(<<e>> \o node.elems)

\* arrayLiteral.addElement(text): the element goes after the existing ones.
addElement(node, e) == ArrayNode(Append(node.elems, e))

\* Variant: the addImportDeclaration call is left out.
addImportDeclaration_LeftOut(tree, imp) == tree

\* file.addImportDeclaration(structure): after the existing imports.
addImportDeclaration(tree, imp) == [tree EXCEPT !.imports = Append(@, imp)]

\* Variant: the throwing lookups are wrapped in a catch that returns.
Failure_Swallowed(e) == [outcome |-> "return", error |-> "none", tree |-> NoTree]

\* A lookup that throws (getClassOrThrow, getDecoratorOrThrow, asKindOrThrow,
\* addSourceFileAtPath, or a member access on undefined).
Failure(e) == [outcome |-> "throw", error |-> e, tree |-> NoTree]

\* Lines 76-99, 118-141, 179-205: open app/module.ts, find the class, the
\* decorator, its first argument and the array property, append the element
\* when the property is a property assignment, add the import.
RegisterInModule(file, r) ==
  IF file = Absent THEN Failure("FileNotFound")
  ELSE IF ~file.hasClass THEN Failure("ClassNotFound")
  ELSE IF ~file.hasDecorator THEN Failure("DecoratorNotFound")
  ELSE IF file.arg = "none" THEN Failure("TypeError")
  ELSE IF file.arg # "object" THEN Failure("WrongKind")
  ELSE LET prop == file[ArrayOf(r.kind)] IN
    IF prop.kind = "other" THEN Failure("WrongKind")
    ELSE LET spliced == IF prop.kind = "array"
                          THEN [file EXCEPT ![ArrayOf(r.kind)] = addElement(prop, ElementOf(r))]
                          ELSE file
         IN [outcome |-> "save", error |-> "none",
             tree |-> addImportDeclaration(spliced, ImportOf(r))]

\* Variant: getExportAssignmentOrThrow in place of the `if (!defaultExport)
\* return`.
RegisterInIndex_Strict(file, r) ==
  IF file = Absent THEN Failure("FileNotFound")
  ELSE LET indexFile == addImportDeclaration(file, ImportOf(r)) IN
    IF indexFile.export.kind # "array" THEN Failure("WrongKind")
    ELSE [outcome |-> "save", error |-> "none",
          tree |-> [indexFile EXCEPT !.export = addElement(@, ElementOf(r))]]

\* Lines 38-57: open config/index.ts, add the import, return when there is
\* no default export, else append to the exported array literal.
RegisterInIndex(file, r) ==
  IF file = Absent THEN Failure("FileNotFound")
  ELSE LET indexFile == addImportDeclaration(file, ImportOf(r)) IN
    IF indexFile.export.kind = "absent"
      THEN [outcome |-> "return", error |-> "none", tree |-> NoTree]
    ELSE IF indexFile.export.kind = "other" THEN Failure("WrongKind")
    ELSE [outcome |-> "save", error |-> "none",
          tree |-> [indexFile EXCEPT !.export = addElement(@, ElementOf(r))]]

------------------------------------------------------------------------------
\* State.

VARIABLES
  disk,        \* the project tree: path -> file content, or Absent
  views,       \* the templates present under stubs/
  pc,          \* where each invocation stands
  req,         \* the options each invocation was called with
  text,        \* the rendered text held by the invocation's new source file
  tree,        \* the registry tree the invocation has mutated in memory
  err,         \* the error the invocation's promise rejected with
  before,      \* history: the project tree when the invocation was called
  overlapped   \* history: another invocation was in flight during this one

vars == <<disk, views, pc, req, text, tree, err, before, overlapped>>

InFlight == {"checked", "saving", "written", "savingRegistry"}
Finished == {"done", "failed"}

\* Existing registry content the generators must leave alone.
PriorModuleImports ==
  << <<"named", "AppController", "./", "controller">>,
     <<"named", "AppService", "./", "service">> >>
PriorControllers == ArrayNode(<< Identifier("AppController") >>)
PriorProviders == ArrayNode(<< Identifier("AppService") >>)
PriorIndexImports == << <<"default", "app", "./", "app">> >>
PriorExport == ArrayNode(<< Identifier("app") >>)

GoodModule ==
  ModuleTree(PriorModuleImports, TRUE, TRUE, "object", PriorControllers, PriorProviders)
GoodIndex == IndexTree(PriorIndexImports, PriorExport)

\* The shapes app/module.ts is found in.
ModuleShapes ==
  { GoodModule,
    Absent,
    [GoodModule EXCEPT !.hasClass = FALSE],
    [GoodModule EXCEPT !.hasDecorator = FALSE],
    [GoodModule EXCEPT !.arg = "none"],
    [GoodModule EXCEPT !.arg = "other"],
    [GoodModule EXCEPT !.controllers = NoNode],
    [GoodModule EXCEPT !.providers = NoNode],
    [GoodModule EXCEPT !.controllers = OtherNode],
    [GoodModule EXCEPT !.providers = OtherNode] }

\* The shapes config/index.ts is found in.
IndexShapes ==
  { GoodIndex,
    Absent,
    [GoodIndex EXCEPT !.export = NoNode],
    [GoodIndex EXCEPT !.export = OtherNode] }

\* The project trees a generator is run in: at most one of the two registry
\* files or the stubs directory departs from the expected shape.
Projects ==
  {[module |-> m, index |-> GoodIndex, views |-> Templates] : m \in ModuleShapes}
  \cup {[module |-> GoodModule, index |-> i, views |-> Templates] : i \in IndexShapes}
  \cup {[module |-> GoodModule, index |-> GoodIndex, views |-> Templates \ {t}] :
          t \in {"service", "model"}}

Init ==
  \E w \in Projects :
    /\ disk = [f \in Paths |-> CASE f = AppModuleFile -> w.module
                                 [] f = ConfigIndex -> w.index
                                 [] OTHER -> Absent]
    /\ views = w.views
    /\ pc = [p \in Procs |-> "idle"]
    /\ req = [p \in Procs |-> NoRequest]
    /\ text = [p \in Procs |-> Absent]
    /\ tree = [p \in Procs |-> NoTree]
    /\ err = [p \in Procs |-> "none"]
    /\ before = [p \in Procs |-> disk]
    /\ overlapped = [p \in Procs |-> FALSE]

------------------------------------------------------------------------------
\* One action per stretch of generator code between two awaits.

\* The call of a generator: destructure the options and run the existence
\* guard (lines 27-28, 63-64, 105-106, 147-148, 161-162, 211-212).  Calls are
\* numbered in the order they are made.
Invoke(p, r) ==
  /\ pc[p] = "idle"
  /\ \A q \in Procs : q < p => pc[q] # "idle"
  /\ req' = [req EXCEPT ![p] = r]
  /\ before' = [before EXCEPT ![p] = disk]
  /\ LET others == {q \in Procs : pc[q] \in InFlight} IN
       overlapped' = [q \in Procs |->
                        IF q = p THEN others # {}
                        ELSE IF q \in others THEN TRUE ELSE overlapped[q]]
  /\ IF checkIfFileAlreadyExists(disk, r.filePath)
       THEN /\ pc' = [pc EXCEPT ![p] = "failed"]
            /\ err' = [err EXCEPT ![p] = "AlreadyExists"]
       ELSE /\ pc' = [pc EXCEPT ![p] = "checked"]
            /\ err' = err
  /\ UNCHANGED <<disk, views, text, tree>>

\* Render the template, create the source file in a new Project and start
\* its save (lines 30-35, 66-73, 108-115, 150-157, 164-176, 214-221).
\* Rendering reads nothing another invocation writes, so it shares the step
\* of the code that follows it.
CreateSourceFile(p) ==
  /\ pc[p] = "checked"
  /\ LET content == renderAsync(views, TemplateOf(req[p].kind), req[p].symbol) IN
       IF ~content.ok
         THEN /\ pc' = [pc EXCEPT ![p] = "failed"]
              /\ err' = [err EXCEPT ![p] = "RenderError"]
              /\ text' = text
       ELSE IF createSourceFileThrows(disk, req[p].filePath)
         THEN /\ pc' = [pc EXCEPT ![p] = "failed"]
              /\ err' = [err EXCEPT ![p] = "InvalidOperation"]
              /\ text' = text
       ELSE /\ pc' = [pc EXCEPT ![p] = "saving"]
            /\ err' = err
            /\ text' = [text EXCEPT ![p] = content.text]
  /\ UNCHANGED <<disk, views, req, tree, before, overlapped>>

\* The write started by `await newFile.save()` lands (lines 35, 73, 115, 157,
\* 176, 221).  createException and createModel return after it.
SaveNewFile(p) ==
  /\ pc[p] = "saving"
  /\ disk' = save(disk, req[p].filePath, text[p])
  /\ pc' = [pc EXCEPT ![p] = IF RegistryOf(req[p].kind) = "" THEN "done" ELSE "written"]
  /\ UNCHANGED <<views, req, text, tree, err, before, overlapped>>

\* The code after the first save up to the second: read the registry file,
\* mutate its tree, start its save (lines 37-57, 75-101, 117-143, 178-207).
Register(p) ==
  /\ pc[p] = "written"
  /\ LET file == disk[RegistryOf(req[p].kind)]
         res == IF req[p].kind = "config" THEN RegisterInIndex(file, req[p])
                                          ELSE RegisterInModule(file, req[p])
     IN /\ pc' = [pc EXCEPT ![p] = CASE res.outcome = "throw" -> "failed"
                                     [] res.outcome = "return" -> "done"
                                     [] res.outcome = "save" -> "savingRegistry"]
        /\ err' = [err EXCEPT ![p] = res.error]
        /\ tree' = [tree EXCEPT ![p] = res.tree]
  /\ UNCHANGED <<disk, views, req, text, before, overlapped>>

\* Variant: the generator returns without `await moduleFile.save()`.
SaveRegistry_NotSaved(p) ==
  /\ pc[p] = "savingRegistry"
  /\ pc' = [pc EXCEPT ![p] = "done"]
  /\ UNCHANGED <<disk, views, req, text, tree, err, before, overlapped>>

\* The write started by `await indexFile.save()` / `await moduleFile.save()`
\* lands (lines 57, 101, 143, 207).
SaveRegistry(p) ==
  /\ pc[p] = "savingRegistry"
  /\ disk' = save(disk, RegistryOf(req[p].kind), tree[p])
  /\ pc' = [pc EXCEPT ![p] = "done"]
  /\ UNCHANGED <<views, req, text, tree, err, before, overlapped>>

Next ==
  \E p \in Procs :
    \/ \E r \in Requests : Invoke(p, r)
    \/ CreateSourceFile(p)
    \/ SaveNewFile(p)
    \/ Register(p)
    \/ SaveRegistry(p)

Spec == Init /\ [][Next]_vars

------------------------------------------------------------------------------
\* Vocabulary of the properties.

Range(seq) == {seq[i] : i \in 1..Len(seq)}

\* Invocation p takes the step.
Step(p) == pc'[p] # pc[p]

\* Invocation p returns without error in the step.
Completes(p) == pc[p] # "done" /\ pc'[p] = "done"

\* The render of the request's template with its input.
Rendered(r) == [type |-> "source", template |-> TemplateOf(r.kind), input |-> r.symbol]

\* The array a kind registers in, within a registry tree.
ArrayField(file, kind) ==
  IF kind = "config" THEN file.export ELSE file[ArrayOf(kind)]

WithArrayField(file, kind, node) ==
  IF kind = "config" THEN [file EXCEPT !.export = node]
                     ELSE [file EXCEPT ![ArrayOf(kind)] = node]

\* Errors raised before the new file is written.
EarlyErrors == {"AlreadyExists", "RenderError", "InvalidOperation"}

\* Errors raised by the registration step.
RegistrationErrors ==
  {"FileNotFound", "ClassNotFound", "DecoratorNotFound", "TypeError", "WrongKind"}

\* Invocation p has written its target file.
Wrote(p) ==
  \/ pc[p] \in {"written", "savingRegistry", "done"}
  \/ pc[p] = "failed" /\ err[p] \in RegistrationErrors

------------------------------------------------------------------------------
\* C1: for every generator kind, a call whose target path already exists
\* fails at once with the error naming the path, and that call creates or
\* modifies no file: the step of the call leaves the disk and every
\* in-memory file as they were, and a failed invocation takes no later step.
C1_CollisionFailsFast ==
  [][\A p \in Procs :
       /\ (pc[p] = "idle" /\ Step(p) /\ disk[req'[p].filePath] # Absent)
            => /\ pc'[p] = "failed"
               /\ err'[p] = "AlreadyExists"
               /\ disk' = disk /\ text' = text /\ tree' = tree
       /\ pc[p] = "failed" => pc'[p] = "failed" /\ err'[p] = err[p]]_vars

\* A call has failed on an existing target and the file it collided with
\* is the one an earlier invocation wrote.
C1_Witness ==
  \E p, q \in Procs :
    /\ pc[p] = "failed" /\ err[p] = "AlreadyExists"
    /\ before[p][req[p].filePath] # Absent
    /\ req[q] = req[p] /\ pc[q] = "done"

\* C2 as stated: every invocation of a registered kind that completes
\* without error leaves one new file holding the render and leaves the
\* registry with exactly one new import and one new element appended, all
\* else as before the call.
C2_Original ==
  [][\A p \in Procs :
       (Completes(p) /\ req[p].kind \in RegisteredKinds) =>
         LET r == req[p]
             reg == RegistryOf(r.kind)
             old == before[p][reg]
         IN /\ before[p][r.filePath] = Absent
            /\ disk'[r.filePath] = Rendered(r)
            /\ old # Absent
            /\ ArrayField(old, r.kind).kind = "array"
            /\ disk'[reg] =
                 WithArrayField([old EXCEPT !.imports = Append(@, ImportOf(r))], r.kind,
                                ArrayNode(Append(ArrayField(old, r.kind).elems, ElementOf(r))))
            /\ \A f \in Paths \ {r.filePath, reg} : disk'[f] = before[p][f]]_vars

\* C2 amended: an invocation of a registered kind that completes without
\* error and without another invocation in flight during it leaves one new
\* file holding the render; the registry gains exactly one import, and
\* exactly one element at the end of the kind's array when the registry has
\* that array; config/index.ts without a default export is left as it was.
C2_Amended ==
  [][\A p \in Procs :
       (Completes(p) /\ req[p].kind \in RegisteredKinds /\ ~overlapped[p]) =>
         LET r == req[p]
             reg == RegistryOf(r.kind)
             old == before[p][reg]
             new == disk'[reg]
         IN /\ before[p][r.filePath] = Absent
            /\ disk'[r.filePath] = Rendered(r)
            /\ \A f \in Paths \ {r.filePath, reg} : disk'[f] = before[p][f]
            /\ old # Absent /\ new # Absent
            /\ IF r.kind = "config" /\ old.export.kind = "absent"
                 THEN new = old
                 ELSE /\ new.imports = Append(old.imports, ImportOf(r))
                      /\ ArrayField(old, r.kind).kind \in {"array", "absent"}
                      /\ ArrayField(new, r.kind) =
                           IF ArrayField(old, r.kind).kind = "array"
                             THEN ArrayNode(Append(ArrayField(old, r.kind).elems, ElementOf(r)))
                             ELSE ArrayField(old, r.kind)
                      /\ WithArrayField([new EXCEPT !.imports = old.imports], r.kind,
                                        ArrayField(old, r.kind)) = old]_vars

\* An invocation has registered its symbol alone and its registry is on disk.
C2_Witness ==
  \E p \in Procs :
    /\ pc[p] = "done" /\ req[p].kind \in RegisteredKinds /\ ~overlapped[p]
    /\ disk[RegistryOf(req[p].kind)] = tree[p]
    /\ ElementOf(req[p]) \in Range(ArrayField(tree[p], req[p].kind).elems)
    /\ disk[req[p].filePath] = Rendered(req[p])

\* C3: for controller, service and repository kinds, a registry tree is
\* handed to save (and so reaches the disk) only when app/module.ts had the
\* class, the decorator, the object-literal argument and the array property;
\* with any of them missing the generation fails before the save.
C3_MissingNodeFailsBeforeSave ==
  \A p \in Procs :
    (req[p].kind \in ModuleKinds /\ pc[p] \in {"savingRegistry", "done"}) =>
      /\ tree[p].hasClass
      /\ tree[p].hasDecorator
      /\ tree[p].arg = "object"
      /\ tree[p][ArrayOf(req[p].kind)].kind = "array"

\* C4: createException and createModel never open or save a registry file
\* (every step of theirs leaves both registry files on disk and the
\* invocation's registry tree untouched), and on success the target holds
\* the render; run alone, the new file is the only change to the disk.
C4_PlainKindsLeaveRegistries ==
  [][\A p \in Procs :
       (Step(p) /\ req'[p].kind \in PlainKinds) =>
         /\ disk'[ConfigIndex] = disk[ConfigIndex]
         /\ disk'[AppModuleFile] = disk[AppModuleFile]
         /\ tree'[p] = NoTree
         /\ Completes(p) =>
              /\ disk'[req[p].filePath] = Rendered(req[p])
              /\ ~overlapped[p] =>
                   /\ before[p][req[p].filePath] = Absent
                   /\ \A f \in Paths \ {req[p].filePath} : disk'[f] = before[p][f]]_vars

\* An exception or model file has been generated.
C4_Witness ==
  \E p \in Procs :
    /\ pc[p] = "done" /\ req[p].kind \in PlainKinds
    /\ disk[req[p].filePath] = Rendered(req[p])
    /\ before[p][req[p].filePath] = Absent

------------------------------------------------------------------------------
\* Position of an element in a sequence that holds it.
IndexOf(seq, e) == CHOOSE i \in 1..Len(seq) : seq[i] = e

\* Invocation p registered alone in an array its registry has.
RegisteredAlone(p) ==
  /\ pc[p] = "done" /\ ~overlapped[p]
  /\ req[p].kind \in RegisteredKinds
  /\ tree[p] # NoTree
  /\ ArrayField(tree[p], req[p].kind).kind = "array"

\* C5: registration is append-only.  The save of an invocation that ran
\* alone leaves the array as it was on disk with the new element added at
\* the end; and for invocations that ran one after the other into the same
\* array, the elements are on disk in the order of the calls.
C5_AppendOnly ==
  /\ [][\A p \in Procs :
          (pc[p] = "savingRegistry" /\ pc'[p] = "done" /\ ~overlapped[p]) =>
            LET reg == RegistryOf(req[p].kind)
                old == ArrayField(disk[reg], req[p].kind)
                new == ArrayField(disk'[reg], req[p].kind)
            IN old.kind = "array" =>
                 /\ new.kind = "array"
                 /\ new.elems = Append(old.elems, ElementOf(req[p]))]_vars
  /\ [](\A p, q \in Procs :
          (/\ p < q /\ RegisteredAlone(p) /\ RegisteredAlone(q)
           /\ RegistryOf(req[p].kind) = RegistryOf(req[q].kind)
           /\ (req[p].kind = "controller") = (req[q].kind = "controller")) =>
            LET arr == ArrayField(disk[RegistryOf(req[p].kind)], req[p].kind).elems
            IN /\ ElementOf(req[p]) \in Range(arr)
               /\ ElementOf(req[q]) \in Range(arr)
               /\ IndexOf(arr, ElementOf(req[p])) < IndexOf(arr, ElementOf(req[q])))

\* WidgetController then GadgetController were generated one after the
\* other; both are in `controllers`, after the element that was there.
C5_Witness ==
  \E p, q \in Procs :
    /\ p < q /\ RegisteredAlone(p) /\ RegisteredAlone(q)
    /\ req[p].kind = "controller" /\ req[q].kind = "controller"
    /\ disk[AppModuleFile].controllers.elems =
         PriorControllers.elems \o <<ElementOf(req[p]), ElementOf(req[q])>>

\* C6: of the invocations for one target path, at most one writes the file.
C6_AtMostOneWriter ==
  \A p, q \in Procs :
    (p # q /\ Wrote(p) /\ Wrote(q)) => req[p].filePath # req[q].filePath

\* C7: no rollback.  For controller, service and repository kinds the
\* registration step fails when app/module.ts is missing or lacks the class
\* or the decorator; a failing registration step writes nothing, so the new
\* file stays on disk (with its render when the invocation ran alone) and
\* app/module.ts is as it was before the call.
C7_NoRollback ==
  /\ [][\A p \in Procs :
          (pc[p] = "written" /\ Step(p) /\ req[p].kind \in ModuleKinds) =>
            /\ (\/ disk[AppModuleFile] = Absent
                \/ ~disk[AppModuleFile].hasClass
                \/ ~disk[AppModuleFile].hasDecorator) => pc'[p] = "failed"
            /\ pc'[p] = "failed" =>
                 /\ err'[p] \in RegistrationErrors
                 /\ disk' = disk
                 /\ disk'[req[p].filePath] # Absent
                 /\ ~overlapped[p] =>
                      /\ disk'[req[p].filePath] = Rendered(req[p])
                      /\ disk'[AppModuleFile] = before[p][AppModuleFile]]_vars
  /\ [](\A p \in Procs :
          (pc[p] = "failed" /\ err[p] \in RegistrationErrors) =>
            disk[req[p].filePath] # Absent)

\* A controller file is on disk although its registration failed on a
\* module file without the AppModule class.
C7_Witness ==
  \E p \in Procs :
    /\ req[p].kind = "controller" /\ pc[p] = "failed" /\ err[p] = "ClassNotFound"
    /\ disk[req[p].filePath] = Rendered(req[p])
    /\ disk[AppModuleFile] = before[p][AppModuleFile]

\* C8 as stated: with the default export of config/index.ts missing or not
\* an array literal, createConfigFile raises no error at the registration
\* step.
C8_Original ==
  \A p \in Procs :
    (/\ req[p].kind = "config" /\ pc[p] = "failed"
     /\ disk[ConfigIndex] # Absent
     /\ disk[ConfigIndex].export.kind # "array") => err[p] \in EarlyErrors

\* C8 amended: with no default export in config/index.ts, createConfigFile
\* returns without error after creating the new file, appends nothing and
\* saves no registry; with a default export that is not an array literal it
\* fails with an error after creating the new file, config/index.ts unchanged.
C8_Amended ==
  [][\A p \in Procs :
       (/\ pc[p] = "written" /\ Step(p) /\ req[p].kind = "config"
        /\ disk[ConfigIndex] # Absent) =>
         /\ disk[ConfigIndex].export.kind = "absent" =>
              /\ pc'[p] = "done" /\ err'[p] = "none" /\ tree'[p] = NoTree
              /\ disk' = disk
              /\ disk[req[p].filePath] # Absent
         /\ disk[ConfigIndex].export.kind = "other" =>
              /\ pc'[p] = "failed" /\ err'[p] = "WrongKind"
              /\ disk' = disk
              /\ disk[req[p].filePath] # Absent]_vars

\* createConfigFile has returned on an index file without default export:
\* the new file is there and the index file is as before the call.
C8_Witness ==
  \E p \in Procs :
    /\ req[p].kind = "config" /\ pc[p] = "done" /\ ~overlapped[p]
    /\ before[p][ConfigIndex] # Absent
    /\ before[p][ConfigIndex].export.kind = "absent"
    /\ disk[req[p].filePath] = Rendered(req[p])
    /\ disk[ConfigIndex] = before[p][ConfigIndex]

\* C9 as stated: a request issued again after its first invocation has
\* finished, whatever that one's outcome, fails with the collision error and
\* changes no file.
C9_Original ==
  [][\A p, q \in Procs :
       (/\ pc[p] \in Finished /\ pc[q] = "idle" /\ Step(q)
        /\ req'[q] = req[p]) =>
         /\ pc'[q] = "failed" /\ err'[q] = "AlreadyExists"
         /\ disk' = disk]_vars

\* C9 amended: a request issued again after its first invocation has
\* finished with any outcome but a render error (the one failure that comes
\* before the file is written and that leaves the target absent) fails with
\* the collision error and changes no file.
C9_Amended ==
  [][\A p, q \in Procs :
       (/\ pc[p] \in Finished /\ err[p] # "RenderError"
        /\ pc[q] = "idle" /\ Step(q)
        /\ req'[q] = req[p]) =>
         /\ pc'[q] = "failed" /\ err'[q] = "AlreadyExists"
         /\ disk' = disk]_vars

\* The same request was issued twice back-to-back; the first completed and
\* the second failed on the collision, the disk as the first left it.
C9_Witness ==
  \E p, q \in Procs :
    /\ p < q /\ req[p] = req[q] /\ ~overlapped[p] /\ ~overlapped[q]
    /\ pc[p] = "done"
    /\ pc[q] = "failed" /\ err[q] = "AlreadyExists"
    /\ disk = before[q]

\* Two invocations on one registry file each read it before the other saved.
Raced(p, q) ==
  /\ p # q /\ pc[p] = "done" /\ pc[q] = "done"
  /\ tree[p] # NoTree /\ tree[q] # NoTree
  /\ RegistryOf(req[p].kind) = RegistryOf(req[q].kind)
  /\ ImportOf(req[p]) # ImportOf(req[q])
  /\ ImportOf(req[p]) \notin Range(tree[q].imports)
  /\ ImportOf(req[q]) \notin Range(tree[p].imports)

\* C10: last writer wins.  When two invocations have raced on a registry
\* file and both completed, the file on disk is the tree one completed
\* invocation saved, own import included; and unless a further invocation
\* generates one of the two symbols again, it never holds the imports of
\* both: one registration is lost.
C10_LastWriterWins ==
  \A p, q \in Procs :
    Raced(p, q) =>
      LET reg == disk[RegistryOf(req[p].kind)] IN
        /\ \E w \in Procs :
             /\ pc[w] = "done" /\ tree[w] = reg
             /\ ImportOf(req[w]) \in Range(reg.imports)
        /\ (\A w \in Procs \ {p, q} : req[w] \notin {req[p], req[q]}) =>
             ~(/\ ImportOf(req[p]) \in Range(reg.imports)
               /\ ImportOf(req[q]) \in Range(reg.imports))

\* createController and createService raced on app/module.ts and both
\* returned without error: the module file holds the last writer's import
\* and element only, and the other's generated file exists.
C10_Witness ==
  \E p, q \in Procs :
    /\ Raced(p, q) /\ err[p] = "none" /\ err[q] = "none"
    /\ req[p].kind = "controller" /\ req[q].kind = "service"
    /\ disk[AppModuleFile] = tree[q]
    /\ ImportOf(req[q]) \in Range(disk[AppModuleFile].imports)
    /\ ElementOf(req[q]) \in Range(disk[AppModuleFile].providers.elems)
    /\ ImportOf(req[p]) \notin Range(disk[AppModuleFile].imports)
    /\ ElementOf(req[p]) \notin Range(disk[AppModuleFile].controllers.elems)
    /\ disk[req[p].filePath] = Rendered(req[p])

====
